---- MODULE Spec2Model ----
(***************************************************************************)
(* Date inference of set_dates_from_folders.py: the name parsers           *)
(* (extract_date_from_name, extract_folder_date_info,                      *)
(* extract_datetime_from_filename), the ancestor walks                     *)
(* (find_date_for_file, find_folder_date_info_for_file) and the            *)
(* reconciliation of run_refine_mode, for one file of the archive.         *)
(*                                                                         *)
(* A name is a sequence of one-character strings.  A datetime is a record  *)
(* [year, month, day, hour, minute, second]; Python's None is None.        *)
(***************************************************************************)
EXTENDS Integers, Sequences, FiniteSets, TLC

VARIABLES
    refine,       \* args.refine
    dirs,         \* bare names of the directories from the filesystem root down to file_path.parent
    base,         \* how many of them lead to base_dir (0: base_dir is the filesystem root)
    fname,        \* file_path.name
    pc,           \* where the processing of the file stands
    current,      \* the directory the walk stands at: dirs[current], 0 for the filesystem root
    date,         \* find_date_for_file: the date returned
    source_name,  \* find_date_for_file: the name the date came from
    source_type,  \* find_date_for_file: "file", "folder" or ""
    folder_info,  \* find_folder_date_info_for_file: the FolderDateInfo returned
    folder_name,  \* find_folder_date_info_for_file: the name it came from
    file_dt,      \* run_refine_mode: extract_datetime_from_filename(file_path.stem)
    final_date,   \* the date the file is to carry
    apply,        \* args.apply
    all_files,    \* find_files(base_dir): the listing, each file as [dirs, fname]
    idx,          \* the place in all_files of the file the loop stands at
    files,        \* the files on disk, in the order of all_files: times and metadata
    tree,         \* the paths of the directories and files under base_dir
    proc,         \* the exiftool process of ExifToolBatch: "up", "dead" or "closed"
    proc_failed,  \* a command to exiftool has met the end of its output, or no answer
    files_before, \* the files on disk as they were when the run began
    log,          \* log.info / log.error: the entries of the report, each with the file's place in the listing
    stats,        \* the counters of the run
    undated_folders,  \* run_default_mode: the folders no date was found for
    existing_exif,    \* exif.read_date(file_path), None before it is read
    writes,       \* the writes the run has asked for, in order: <<"exif" or "fs", idx>>
    run,          \* how many times the program has been started on the archive
    exit_code     \* what the run returned, None while it is running

\* the variables of the run: the arguments, the listing, the disk, the counters
run_vars == <<apply, all_files, idx, files, files_before, tree, proc, proc_failed, log, stats,
              undated_folders, existing_exif, writes, run, exit_code>>

vars == <<refine, dirs, base, fname, pc, current, date, source_name, source_type,
          folder_info, folder_name, file_dt, final_date, run_vars>>

None == [none |-> TRUE]

-----------------------------------------------------------------------------
(* Characters and the classes the regular expressions use.                 *)

DigitChars == <<"0", "1", "2", "3", "4", "5", "6", "7", "8", "9">>

Digit == {DigitChars[i] : i \in 1..Len(DigitChars)}

\* \s
Whitespace == {" ", "\t", "\n"}

\* int() of one digit
DigitVal(c) == (CHOOSE i \in 1..Len(DigitChars) : DigitChars[i] = c) - 1

\* s[i] exists and is \d
IsDigitAt(s, i) == i >= 1 /\ i <= Len(s) /\ s[i] \in Digit

\* \d{n} at position i of s
DigitsAt(s, i, n) == \A k \in 0..(n - 1) : IsDigitAt(s, i + k)

\* the literal character c at position i of s
CharAt(s, i, c) == i >= 1 /\ i <= Len(s) /\ s[i] = c

\* one character of the class cls at position i of s
ClassAt(s, i, cls) == i >= 1 /\ i <= Len(s) /\ s[i] \in cls

\* $ (no MULTILINE): the end of s, or just before a newline that ends s
AtDollar(s, i) == i = Len(s) + 1 \/ (i = Len(s) /\ s[i] = "\n")

\* int(digits) of a string of decimal digits
RECURSIVE int(_)
int(digits) ==
    IF digits = <<>> THEN 0
    ELSE int(SubSeq(digits, 1, Len(digits) - 1)) * 10 + DigitVal(digits[Len(digits)])

-----------------------------------------------------------------------------
(* datetime                                                                *)

IsLeap(y) == y % 4 = 0 /\ (y % 100 # 0 \/ y % 400 = 0)

DaysInMonth(y, m) ==
    IF m = 2 THEN (IF IsLeap(y) THEN 29 ELSE 28)
    ELSE IF m \in {4, 6, 9, 11} THEN 30 ELSE 31

\* datetime(y, m, d, H, M, S) does not raise ValueError
ValidDateTime(y, m, d, H, M, S) ==
    /\ y >= 1 /\ y <= 9999
    /\ m >= 1 /\ m <= 12
    /\ d >= 1 /\ d <= DaysInMonth(y, m)
    /\ H >= 0 /\ H <= 23
    /\ M >= 0 /\ M <= 59
    /\ S >= 0 /\ S <= 59

DateTime(y, m, d, H, M, S) ==
    [year |-> y, month |-> m, day |-> d, hour |-> H, minute |-> M, second |-> S]

\* try: datetime(...) except ValueError: None
TryDateTime(y, m, d, H, M, S) ==
    IF ValidDateTime(y, m, d, H, M, S) THEN DateTime(y, m, d, H, M, S) ELSE None

\* a <= b on datetimes
DateTimeLE(a, b) ==
    LET ta == <<a.year, a.month, a.day, a.hour, a.minute, a.second>>
        tb == <<b.year, b.month, b.day, b.hour, b.minute, b.second>>
    IN  \/ ta = tb
        \/ \E k \in 1..6 : /\ \A j \in 1..(k - 1) : ta[j] = tb[j]
                           /\ ta[k] < tb[k]

-----------------------------------------------------------------------------
(* The regular expressions.  A match is a record of the groups (the text  *)
(* each matched, None for a group that took no part) and of match.end(),   *)
(* counted in characters; no match is None.                                *)

\* (?=[\s\-]|$) at position i
LookSpaceDashEnd(s, i) == ClassAt(s, i, Whitespace \cup {"-"}) \/ AtDollar(s, i)

\* (?=\s|$) at position i
LookSpaceEnd(s, i) == ClassAt(s, i, Whitespace) \/ AtDollar(s, i)

\* DATE_PATTERN with '-' let through after the bare year, as after a month or a day
DATE_PATTERN_DashAfterYear(name) ==
    IF ~DigitsAt(name, 1, 4) THEN None
    ELSE IF CharAt(name, 5, ".") /\ DigitsAt(name, 6, 2)
              /\ CharAt(name, 8, ".") /\ DigitsAt(name, 9, 2)
              /\ LookSpaceDashEnd(name, 11)
         THEN [g1 |-> SubSeq(name, 1, 4), g2 |-> SubSeq(name, 6, 7),
               g3 |-> SubSeq(name, 9, 10), end |-> 10]
    ELSE IF CharAt(name, 5, ".") /\ DigitsAt(name, 6, 2) /\ LookSpaceDashEnd(name, 8)
         THEN [g1 |-> SubSeq(name, 1, 4), g2 |-> SubSeq(name, 6, 7), g3 |-> None, end |-> 7]
    ELSE IF LookSpaceDashEnd(name, 5)
         THEN [g1 |-> SubSeq(name, 1, 4), g2 |-> None, g3 |-> None, end |-> 4]
    ELSE None

\* DATE_PATTERN.match(name): the alternatives in the order the pattern tries them
DATE_PATTERN(name) ==
    IF ~DigitsAt(name, 1, 4) THEN None
    ELSE IF CharAt(name, 5, ".") /\ DigitsAt(name, 6, 2)
              /\ CharAt(name, 8, ".") /\ DigitsAt(name, 9, 2)
              /\ LookSpaceDashEnd(name, 11)
         THEN [g1 |-> SubSeq(name, 1, 4), g2 |-> SubSeq(name, 6, 7),
               g3 |-> SubSeq(name, 9, 10), end |-> 10]
    ELSE IF CharAt(name, 5, ".") /\ DigitsAt(name, 6, 2) /\ LookSpaceDashEnd(name, 8)
         THEN [g1 |-> SubSeq(name, 1, 4), g2 |-> SubSeq(name, 6, 7), g3 |-> None, end |-> 7]
    ELSE IF LookSpaceEnd(name, 5)
         THEN [g1 |-> SubSeq(name, 1, 4), g2 |-> None, g3 |-> None, end |-> 4]
    ELSE None

\* RANGE_PATTERN.match(rest)
RANGE_PATTERN(rest) ==
    IF ~(CharAt(rest, 1, "-") /\ DigitsAt(rest, 2, 2)) THEN None
    ELSE IF CharAt(rest, 4, ".") /\ DigitsAt(rest, 5, 2)
         THEN [g1 |-> SubSeq(rest, 2, 3), g2 |-> SubSeq(rest, 5, 6)]
    ELSE [g1 |-> SubSeq(rest, 2, 3), g2 |-> None]

\* FILENAME_DATETIME_PATTERN without (?:^|[_\-]) before the date
FilenameDatetimeAt_Anywhere(stem, i) ==
    /\ DigitsAt(stem, i, 8)
    /\ ClassAt(stem, i + 8, {"_", "-"})
    /\ DigitsAt(stem, i + 9, 6)
    /\ ClassAt(stem, i + 15, {"_", "-", "."}) \/ AtDollar(stem, i + 15)

\* FILENAME_DATETIME_PATTERN matches with its first group at position i of stem
FilenameDatetimeAt(stem, i) ==
    /\ i = 1 \/ ClassAt(stem, i - 1, {"_", "-"})
    /\ DigitsAt(stem, i, 8)
    /\ ClassAt(stem, i + 8, {"_", "-"})
    /\ DigitsAt(stem, i + 9, 6)
    /\ ClassAt(stem, i + 15, {"_", "-", "."}) \/ AtDollar(stem, i + 15)

\* FILENAME_DATETIME_PATTERN.search(stem): the leftmost match
FILENAME_DATETIME_PATTERN(stem) ==
    LET at == {i \in 1..Len(stem) : FilenameDatetimeAt(stem, i)}
    IN  IF at = {} THEN None
        ELSE LET i == CHOOSE j \in at : \A k \in at : j <= k
             IN  [g1 |-> SubSeq(stem, i, i + 3), g2 |-> SubSeq(stem, i + 4, i + 5),
                  g3 |-> SubSeq(stem, i + 6, i + 7), g4 |-> SubSeq(stem, i + 9, i + 10),
                  g5 |-> SubSeq(stem, i + 11, i + 12), g6 |-> SubSeq(stem, i + 13, i + 14)]

-----------------------------------------------------------------------------
(* The parsers.                                                            *)

\* extract_date_from_name falling back to the 1st of the month, then to January
\* 1st, when the day the name writes does not exist
extract_date_from_name_Coarser(name) ==
    LET match == DATE_PATTERN(name)
    IN  IF match = None THEN None
        ELSE LET year  == int(match.g1)
                 month == IF match.g2 # None THEN int(match.g2) ELSE 1
                 day   == IF match.g3 # None THEN int(match.g3) ELSE 1
             IN  IF ValidDateTime(year, month, day, 12, 0, 0)
                     THEN DateTime(year, month, day, 12, 0, 0)
                 ELSE IF ValidDateTime(year, month, 1, 12, 0, 0)
                     THEN DateTime(year, month, 1, 12, 0, 0)
                 ELSE TryDateTime(year, 1, 1, 12, 0, 0)

extract_date_from_name(name) ==
    LET match == DATE_PATTERN(name)
    IN  IF match = None THEN None
        ELSE LET year  == int(match.g1)
                 month == IF match.g2 # None THEN int(match.g2) ELSE 1
                 day   == IF match.g3 # None THEN int(match.g3) ELSE 1
             IN  TryDateTime(year, month, day, 12, 0, 0)

\* Precision asking for the month before the day
Precision_MonthFirst(match) ==
    IF match.g2 # None THEN "month"
    ELSE IF match.g3 # None THEN "day"
    ELSE "year"

\* the precision of a DATE_PATTERN match
Precision(match) ==
    IF match.g3 # None THEN "day"
    ELSE IF match.g2 # None THEN "month"
    ELSE "year"

\* RangeEnd reading -MM.DD as -DD.MM
RangeEnd_DayMonthSwapped(rest, precision, year, month) ==
    LET range_match == RANGE_PATTERN(rest)
    IN  IF range_match = None THEN None
        ELSE LET r1   == int(range_match.g1)
                 r2_s == range_match.g2
             IN  IF precision = "day" /\ r2_s # None
                     THEN TryDateTime(year, int(r2_s), r1, 12, 0, 0)
                 ELSE IF precision = "day"
                     THEN TryDateTime(year, month, r1, 12, 0, 0)
                 ELSE IF precision = "month"
                     THEN TryDateTime(year, r1, 1, 12, 0, 0)
                 ELSE None

\* the range end of extract_folder_date_info, from the text after the match
RangeEnd(rest, precision, year, month) ==
    LET range_match == RANGE_PATTERN(rest)
    IN  IF range_match = None THEN None
        ELSE LET r1   == int(range_match.g1)
                 r2_s == range_match.g2
             IN  IF precision = "day" /\ r2_s # None
                     THEN TryDateTime(year, r1, int(r2_s), 12, 0, 0)
                 ELSE IF precision = "day"
                     THEN TryDateTime(year, month, r1, 12, 0, 0)
                 ELSE IF precision = "month"
                     THEN TryDateTime(year, r1, 1, 12, 0, 0)
                 ELSE None

\* extract_folder_date_info giving up the whole name when the range suffix names
\* no day of the calendar
extract_folder_date_info_RangeFatal(name) ==
    LET match == DATE_PATTERN(name)
    IN  IF match = None THEN None
        ELSE LET year  == int(match.g1)
                 month == IF match.g2 # None THEN int(match.g2) ELSE 1
                 day   == IF match.g3 # None THEN int(match.g3) ELSE 1
                 start == TryDateTime(year, month, day, 12, 0, 0)
                 rest  == SubSeq(name, match.end + 1, Len(name))
                 end   == RangeEnd(rest, Precision(match), year, month)
             IN  IF start = None THEN None
                 ELSE IF RANGE_PATTERN(rest) # None /\ Precision(match) # "year" /\ end = None
                     THEN None
                 ELSE [start |-> start, precision |-> Precision(match), end |-> end]

extract_folder_date_info(name) ==
    LET match == DATE_PATTERN(name)
    IN  IF match = None THEN None
        ELSE LET year  == int(match.g1)
                 month == IF match.g2 # None THEN int(match.g2) ELSE 1
                 day   == IF match.g3 # None THEN int(match.g3) ELSE 1
                 start == TryDateTime(year, month, day, 12, 0, 0)
                 rest  == SubSeq(name, match.end + 1, Len(name))
             IN  IF start = None THEN None
                 ELSE [start     |-> start,
                       precision |-> Precision(match),
                       end       |-> RangeEnd(rest, Precision(match), year, month)]

extract_datetime_from_filename(stem) ==
    LET match == FILENAME_DATETIME_PATTERN(stem)
    IN  IF match = None THEN None
        ELSE TryDateTime(int(match.g1), int(match.g2), int(match.g3),
                         int(match.g4), int(match.g5), int(match.g6))

\* is_consistent holding a range of months to its two dates: a file of March 30th
\* is past the end of 01-03, which is March 1st
is_consistent_MonthByDate(info, dt) ==
    LET fs == info.start
    IN  IF info.precision = "year" THEN dt.year = fs.year
        ELSE IF info.precision = "month"
            THEN IF dt.year # fs.year THEN FALSE
                 ELSE IF info.end # None
                     THEN DateTimeLE(fs, dt) /\ DateTimeLE(dt, info.end)
                     ELSE dt.month = fs.month
        ELSE IF dt.year # fs.year THEN FALSE
        ELSE IF info.end # None
            THEN LET file_date == DateTime(dt.year, dt.month, dt.day, 12, 0, 0)
                 IN  DateTimeLE(fs, file_date) /\ DateTimeLE(file_date, info.end)
        ELSE dt.year = fs.year /\ dt.month = fs.month /\ dt.day = fs.day

\* is_consistent comparing the timestamp as it is, its time of day included, with
\* the two middays of a range of days
is_consistent_NoMidday(info, dt) ==
    LET fs == info.start
    IN  IF info.precision = "year" THEN dt.year = fs.year
        ELSE IF info.precision = "month"
            THEN IF dt.year # fs.year THEN FALSE
                 ELSE IF info.end # None
                     THEN fs.month <= dt.month /\ dt.month <= info.end.month
                     ELSE dt.month = fs.month
        ELSE IF dt.year # fs.year THEN FALSE
        ELSE IF info.end # None
            THEN DateTimeLE(fs, dt) /\ DateTimeLE(dt, info.end)
        ELSE dt.year = fs.year /\ dt.month = fs.month /\ dt.day = fs.day

\* does the date of the file name agree with the folder's date at the folder's
\* precision, ranges included
is_consistent(info, dt) ==
    LET fs == info.start
    IN  IF info.precision = "year"
            THEN IF info.end # None
                     THEN fs.year <= dt.year /\ dt.year <= info.end.year
                     ELSE dt.year = fs.year
        ELSE IF info.precision = "month"
            THEN IF dt.year # fs.year THEN FALSE
                 ELSE IF info.end # None
                     THEN fs.month <= dt.month /\ dt.month <= info.end.month
                     ELSE dt.month = fs.month
        ELSE IF info.precision = "day"
            THEN IF dt.year # fs.year THEN FALSE
                 ELSE IF info.end # None
                     THEN LET file_date == DateTime(dt.year, dt.month, dt.day, 12, 0, 0)
                          IN  DateTimeLE(fs, file_date) /\ DateTimeLE(file_date, info.end)
                     ELSE dt.year = fs.year /\ dt.month = fs.month /\ dt.day = fs.day
        ELSE FALSE

-----------------------------------------------------------------------------
(* Paths.                                                                  *)

\* the largest i with name[i] = ".", 0 if there is none: name.rfind('.') + 1
LastDot(name) ==
    LET at == {i \in 1..Len(name) : name[i] = "."}
    IN  IF at = {} THEN 0 ELSE CHOOSE i \in at : \A j \in at : j <= i

\* PurePath.stem: the name without its last suffix; a dot that starts or ends the
\* name starts no suffix
Stem(name) ==
    LET i == LastDot(name)
    IN  IF 1 < i /\ i < Len(name) THEN SubSeq(name, 1, i - 1) ELSE name

\* current.name: the bare name of directory i of the path, '' for the filesystem root
DirName(i) == IF i = 0 THEN <<>> ELSE dirs[i]

\* file_path.parent, where the walks begin
StartDir_BaseDir == base

StartDir == Len(dirs)

\* AtTop without current == base: the walk stops at the filesystem root only
AtTop_FilesystemRootOnly(i) == i = 0

\* current == base or current == current.parent
AtTop(i) == i = base \/ i = 0

-----------------------------------------------------------------------------
(* find_date_for_file (default mode).                                      *)

\* find_date_for_file going up the directories without a look at the file's name
FileNameDate_Skipped ==
    /\ pc = "start" /\ ~refine
    /\ current' = StartDir
    /\ pc' = "walk"
    /\ UNCHANGED <<refine, dirs, base, fname, date, source_name, source_type,
                   folder_info, folder_name, file_dt, final_date>>
    /\ UNCHANGED run_vars

\* 1. the file's own name without its extension
FileNameDate ==
    /\ pc = "start" /\ ~refine
    /\ LET file_stem == Stem(fname)
           d == extract_date_from_name(file_stem)
       IN  IF d # None
               THEN /\ date' = d
                    /\ source_name' = file_stem
                    /\ source_type' = "file"
                    /\ pc' = "resolved"
                    /\ UNCHANGED current
               ELSE /\ current' = StartDir
                    /\ pc' = "walk"
                    /\ UNCHANGED <<date, source_name, source_type>>
    /\ UNCHANGED <<refine, dirs, base, fname, folder_info, folder_name, file_dt, final_date>>
    /\ UNCHANGED run_vars

\* 2. one turn of the loop: the current directory's name carries a date
DateWalkFound ==
    /\ pc = "walk" /\ ~refine
    /\ extract_date_from_name(DirName(current)) # None
    /\ date' = extract_date_from_name(DirName(current))
    /\ source_name' = DirName(current)
    /\ source_type' = "folder"
    /\ pc' = "resolved"
    /\ UNCHANGED <<refine, dirs, base, fname, current, folder_info, folder_name,
                   file_dt, final_date>>
    /\ UNCHANGED run_vars

\* the loop leaving at base_dir before it has looked at base_dir's name
DateWalkStop_BeforeTest ==
    /\ pc = "walk" /\ ~refine
    /\ AtTop(current)
    /\ date' = None
    /\ source_name' = None
    /\ source_type' = ""
    /\ pc' = "undated"
    /\ UNCHANGED <<refine, dirs, base, fname, current, folder_info, folder_name,
                   file_dt, final_date>>
    /\ UNCHANGED run_vars

\* it carries none and the walk stands at base_dir or at the filesystem root
DateWalkStop ==
    /\ pc = "walk" /\ ~refine
    /\ extract_date_from_name(DirName(current)) = None
    /\ AtTop(current)
    /\ date' = None
    /\ source_name' = None
    /\ source_type' = ""
    /\ pc' = "undated"
    /\ UNCHANGED <<refine, dirs, base, fname, current, folder_info, folder_name,
                   file_dt, final_date>>
    /\ UNCHANGED run_vars

\* it carries none: on to the parent
DateWalkUp ==
    /\ pc = "walk" /\ ~refine
    /\ extract_date_from_name(DirName(current)) = None
    /\ ~AtTop(current)
    /\ current' = current - 1
    /\ UNCHANGED <<refine, dirs, base, fname, pc, date, source_name, source_type,
                   folder_info, folder_name, file_dt, final_date>>
    /\ UNCHANGED run_vars

-----------------------------------------------------------------------------
(* find_folder_date_info_for_file (refine mode).                           *)

\* FolderWalkStart trying the file's own name first, as find_date_for_file does
FolderWalkStart_FileFirst ==
    /\ pc = "start" /\ refine
    /\ LET d == extract_date_from_name(Stem(fname))
       IN  IF d # None
               THEN /\ final_date' = d
                    /\ pc' = "resolved"
                    /\ UNCHANGED current
               ELSE /\ current' = StartDir
                    /\ pc' = "walk"
                    /\ UNCHANGED final_date
    /\ UNCHANGED <<refine, dirs, base, fname, date, source_name, source_type,
                   folder_info, folder_name, file_dt>>
    /\ UNCHANGED run_vars

FolderWalkStart ==
    /\ pc = "start" /\ refine
    /\ current' = StartDir
    /\ pc' = "walk"
    /\ UNCHANGED <<refine, dirs, base, fname, date, source_name, source_type,
                   folder_info, folder_name, file_dt, final_date>>
    /\ UNCHANGED run_vars

FolderWalkFound ==
    /\ pc = "walk" /\ refine
    /\ extract_folder_date_info(DirName(current)) # None
    /\ folder_info' = extract_folder_date_info(DirName(current))
    /\ folder_name' = DirName(current)
    /\ pc' = "reconcile"
    /\ UNCHANGED <<refine, dirs, base, fname, current, date, source_name, source_type,
                   file_dt, final_date>>
    /\ UNCHANGED run_vars

FolderWalkStop ==
    /\ pc = "walk" /\ refine
    /\ extract_folder_date_info(DirName(current)) = None
    /\ AtTop(current)
    /\ folder_info' = None
    /\ folder_name' = None
    /\ pc' = "undated"
    /\ UNCHANGED <<refine, dirs, base, fname, current, date, source_name, source_type,
                   file_dt, final_date>>
    /\ UNCHANGED run_vars

FolderWalkUp ==
    /\ pc = "walk" /\ refine
    /\ extract_folder_date_info(DirName(current)) = None
    /\ ~AtTop(current)
    /\ current' = current - 1
    /\ UNCHANGED <<refine, dirs, base, fname, pc, date, source_name, source_type,
                   folder_info, folder_name, file_dt, final_date>>
    /\ UNCHANGED run_vars

-----------------------------------------------------------------------------
(* run_refine_mode: the date of the file name against the folder's date.   *)

\* RefineFinalDate taking the date of the file name whenever there is one
RefineFinalDate_FileWins(info, dt) ==
    IF dt = None THEN info.start ELSE dt

\* the final date of a file whose folder date is info and whose name carries dt
RefineFinalDate(info, dt) ==
    IF dt = None THEN info.start
    ELSE IF is_consistent(info, dt) THEN dt
    ELSE info.start

\* the counter of run_refine_mode that the file adds to
RefineCounter(info, dt) ==
    IF dt = None THEN "no_filename_dt"
    ELSE IF is_consistent(info, dt) THEN "refined"
    ELSE "conflict"

\* the entry run_refine_mode writes in the report when it has weighed the date
\* of the file name: [УТОЧНЕНИЕ], [КОНФЛИКТ], or none
RefineEntry(info, dt) ==
    IF dt = None THEN <<>>
    ELSE IF is_consistent(info, dt) THEN <<<<"refinement", idx>>>>
    ELSE <<<<"conflict", idx>>>>

Reconcile ==
    /\ pc = "reconcile" /\ refine
    /\ file_dt' = extract_datetime_from_filename(Stem(fname))
    /\ final_date' = RefineFinalDate(folder_info, file_dt')
    /\ stats' = [stats EXCEPT ![RefineCounter(folder_info, file_dt')] = @ + 1]
    /\ pc' = "resolved"
    /\ UNCHANGED <<refine, dirs, base, fname, current, date, source_name, source_type,
                   folder_info, folder_name>>
    /\ UNCHANGED <<apply, all_files, idx, files, tree, proc, proc_failed,
                   undated_folders, existing_exif, writes, run, exit_code>>
    /\ log' = log \o RefineEntry(folder_info, file_dt')
    /\ UNCHANGED files_before

-----------------------------------------------------------------------------
(* The names the model is run on.                                          *)

\* n as two and as four decimal digits
TwoDigits(n) == <<DigitChars[(n \div 10) + 1], DigitChars[(n % 10) + 1]>>

FourDigits(n) == TwoDigits(n \div 100) \o TwoDigits(n % 100)

Years == {1900, 2023, 2024}

Months == {0, 1, 2, 4, 12, 13}

Days == {0, 1, 28, 29, 30, 31}

\* YYYY, YYYY.MM and YYYY.MM.DD
YearTokens == {FourDigits(y) : y \in Years}

MonthTokens == {FourDigits(y) \o <<".">> \o TwoDigits(m) : y \in Years, m \in Months}

DayTokens == {t \o <<".">> \o TwoDigits(d) : t \in MonthTokens, d \in Days}

\* what follows the token: nothing, -NN, -NN.NN, and suffixes that are cut short
RangeSuffixes ==
    {<<>>, <<"-">>, <<"-", "5">>, <<"-", "0", "5", ".", "7">>, <<".", "0", "7">>}
        \cup {<<"-">> \o TwoDigits(r) : r \in Months \cup Days}
        \cup {<<"-">> \o TwoDigits(m) \o <<".">> \o TwoDigits(d) :
                  m \in {2, 4, 13}, d \in {1, 30, 31}}

\* the description after the date
Tails == {<<>>, <<" ", "x">>, <<"x">>}

DottedNames ==
    {t \o r \o x : t \in YearTokens \cup MonthTokens \cup DayTokens,
                   r \in RangeSuffixes, x \in Tails}

\* the same numbers joined by something else than '.', names that begin with fewer
\* or more than four digits, one-digit months and days, year 0000
Joins == {<<".">>, <<"-">>, <<"_">>, <<>>}

OtherNames ==
    {FourDigits(2009) \o j1 \o TwoDigits(9) \o j2 \o TwoDigits(25) \o x :
         j1 \in Joins, j2 \in Joins, x \in Tails}
        \cup {FourDigits(2009) \o j1 \o TwoDigits(9) \o x : j1 \in Joins, x \in Tails}
        \cup {h \o t \o x :
                  h \in {<<"2", "0", "9">>, <<"2", "0", "0", "9", "1">>, <<"x", "2", "0", "0", "9">>,
                         <<" ", "2", "0", "0", "9">>, FourDigits(0), <<>>},
                  t \in {<<>>, <<".", "0", "9">>, <<".", "0", "9", ".", "2", "5">>},
                  x \in Tails}
        \cup {FourDigits(2009) \o t \o x :
                  t \in {<<".", "9">>, <<".", "9", ".", "2", "5">>, <<".", "0", "9", ".", "5">>,
                         <<".">>, <<".", "0", "9", ".">>, <<"\t">>, <<"\n">>,
                         <<".", "0", "9", "\t">>, <<".", "0", "9", ".", "2", "5", "\n">>},
                  x \in Tails}

FolderNames == DottedNames \cup OtherNames

\* the directories of a deeper tree: no date, dashes only, a year, a range of
\* days, a month, a day that does not exist
TreeNames ==
    {<<"x">>,
     FourDigits(2009) \o <<"-">> \o TwoDigits(9) \o <<"-">> \o TwoDigits(25) \o <<" ", "x">>,
     FourDigits(2009) \o <<" ", "x">>,
     FourDigits(2009) \o <<".">> \o TwoDigits(9) \o <<".">> \o TwoDigits(24) \o <<"-">> \o TwoDigits(25),
     FourDigits(2024) \o <<".">> \o TwoDigits(6),
     FourDigits(2023) \o <<".">> \o TwoDigits(2) \o <<".">> \o TwoDigits(31) \o <<" ", "x">>}

Jpg == <<".", "j", "p", "g">>

\* YYYYMMDD_HHMMSS
Stamp(y, m, d, H, M, S) ==
    FourDigits(y) \o TwoDigits(m) \o TwoDigits(d) \o <<"_">>
        \o TwoDigits(H) \o TwoDigits(M) \o TwoDigits(S)

Img == <<"I", "M", "G", "_">>

TreeFiles ==
    {<<"a">> \o Jpg,
     FourDigits(2025) \o <<".">> \o TwoDigits(3) \o <<".">> \o TwoDigits(12) \o <<" ", "x">> \o Jpg,
     FourDigits(2009) \o Jpg,
     Img \o Stamp(2009, 9, 25, 16, 0, 0) \o Jpg}

\* the folders the refine pass is run on: a year, a month, a range of months, a
\* day, a range of days, one across two months, ranges that end before they
\* start, no date
RefineFolders ==
    {FourDigits(2019),
     FourDigits(2019) \o <<".">> \o TwoDigits(2),
     FourDigits(2019) \o <<".">> \o TwoDigits(1) \o <<"-">> \o TwoDigits(3),
     FourDigits(2019) \o <<".">> \o TwoDigits(1) \o <<".">> \o TwoDigits(2),
     FourDigits(2019) \o <<".">> \o TwoDigits(1) \o <<".">> \o TwoDigits(2) \o <<"-">> \o TwoDigits(5),
     FourDigits(2019) \o <<".">> \o TwoDigits(1) \o <<".">> \o TwoDigits(30)
         \o <<"-">> \o TwoDigits(2) \o <<".">> \o TwoDigits(2),
     FourDigits(2019) \o <<".">> \o TwoDigits(3) \o <<"-">> \o TwoDigits(1),
     FourDigits(2019) \o <<".">> \o TwoDigits(1) \o <<".">> \o TwoDigits(5) \o <<"-">> \o TwoDigits(2),
     <<"x">>}

\* file names that carry YYYYMMDD_HHMMSS, well placed or not, and file names
\* that carry a dotted date
StampedStems ==
    {Img \o Stamp(y, m, d, t[1], t[2], t[3]) :
         y \in {2019, 2020}, m \in {1, 2, 3, 13}, d \in {1, 2, 5, 6, 30},
         t \in {<<0, 0, 0>>, <<16, 0, 0>>, <<23, 59, 59>>, <<24, 0, 0>>}}
        \cup {h \o Stamp(2019, 1, 2, 16, 0, 0) \o x :
                  h \in {<<>>, <<"x">>, <<"a", "-">>, <<"1">>,
                         Img \o Stamp(2019, 1, 6, 16, 0, 0) \o <<"_">>,
                         Img \o Stamp(2019, 13, 6, 16, 0, 0) \o <<"_">>},
                  x \in {<<>>, <<"_", "1">>, <<"1">>, <<"x">>, <<"\n">>}}
        \cup {FourDigits(2019) \o TwoDigits(1) \o TwoDigits(2) \o j \o <<"1", "6", "0", "0", "0", "0">> :
                  j \in {<<"-">>, <<>>, <<".">>, <<" ">>}}

DatedStems ==
    {t \o x : t \in {FourDigits(2019), FourDigits(2025) \o <<".">> \o TwoDigits(3),
                      FourDigits(2019) \o <<".">> \o TwoDigits(1) \o <<".">> \o TwoDigits(4),
                      FourDigits(2019) \o <<".">> \o TwoDigits(2) \o <<".">> \o TwoDigits(30),
                      FourDigits(2019) \o <<"-">> \o TwoDigits(1) \o <<"-">> \o TwoDigits(4)},
              x \in {<<>>, <<" ", "x">>, <<"x">>, <<"-">> \o TwoDigits(5) \o <<" ", "x">>}}

FileNames ==
    {st \o e : st \in StampedStems \cup DatedStems, e \in {Jpg, <<>>}}
        \cup {<<"a">> \o Jpg, <<".", "a">>, <<"a", ".">>, <<"a">>}

\* the deepest tree
MaxDepth == 3

\* how many times the program is started on one archive
MaxRuns == 2

\* the sequences over S of length at most n
RECURSIVE SeqsUpTo(_, _)
SeqsUpTo(S, n) ==
    IF n = 0 THEN {<<>>}
    ELSE LET shorter == SeqsUpTo(S, n - 1)
         IN  shorter \cup {Append(q, x) : q \in {r \in shorter : Len(r) = n - 1}, x \in S}

-----------------------------------------------------------------------------
(* One file of the listing of find_files(base_dir), before it is looked at.*)

\* a directory of every kind of name: base_dir itself, or a directory of base_dir
InitFolder ==
    /\ dirs \in {<<n>> : n \in FolderNames}
                 \cup {<<p, n>> : p \in {<<"x">>, FourDigits(2024) \o <<".">> \o TwoDigits(6)},
                                  n \in FolderNames}
    /\ base = 1
    /\ fname = <<"a">> \o Jpg

\* a tree of a few kinds of directory, base_dir anywhere on the way up
InitTree ==
    /\ dirs \in SeqsUpTo(TreeNames, MaxDepth)
    /\ base \in 0..Len(dirs)
    /\ fname \in TreeFiles

\* one directory, every kind of file name
InitFile ==
    /\ dirs \in {<<n>> : n \in RefineFolders}
    /\ base = 1
    /\ fname \in FileNames

\* stats = {...}: the counters of both modes, all 0 but 'total'
Stats(total) ==
    [total |-> total, with_date |-> 0, without_date |-> 0, skipped_match |-> 0,
     success |-> 0, failed |-> 0, skipped_dry_run |-> 0, without_folder_date |-> 0,
     no_filename_dt |-> 0, refined |-> 0, conflict |-> 0]

\* the file is looked at on its own: no listing, nothing on disk
Init ==
    /\ refine \in BOOLEAN
    /\ InitFolder \/ InitTree \/ InitFile
    /\ pc = "start"
    /\ current = 0
    /\ date = None
    /\ source_name = None
    /\ source_type = ""
    /\ folder_info = None
    /\ folder_name = None
    /\ file_dt = None
    /\ final_date = None
    /\ apply = FALSE
    /\ all_files = <<>>
    /\ idx = 0
    /\ files = <<>>
    /\ files_before = <<>>
    /\ tree = {}
    /\ proc = "up"
    /\ proc_failed = FALSE
    /\ log = <<>>
    /\ stats = Stats(1)
    /\ undated_folders = {}
    /\ existing_exif = None
    /\ writes = <<>>
    /\ run = 1
    /\ exit_code = None

Next ==
    \/ FileNameDate
    \/ DateWalkFound
    \/ DateWalkStop
    \/ DateWalkUp
    \/ FolderWalkStart
    \/ FolderWalkFound
    \/ FolderWalkStop
    \/ FolderWalkUp
    \/ Reconcile

Spec == Init /\ [][Next]_vars

-----------------------------------------------------------------------------
(* Time on disk and the text of the metadata.  A time of the filesystem is *)
(* counted in half seconds from 2000-01-01 00:00:00 local time: st_mtime   *)
(* is a float, and only differences of times are ever looked at.           *)

\* the half seconds of one second
Second == 2

\* the days before January 1st of year y
DaysBeforeYear(y) ==
    LET p == y - 1 IN p * 365 + (p \div 4) - (p \div 100) + (p \div 400)

\* the days of year y before the 1st of month m
RECURSIVE DaysBeforeMonth(_, _)
DaysBeforeMonth(y, m) ==
    IF m = 1 THEN 0 ELSE DaysBeforeMonth(y, m - 1) + DaysInMonth(y, m - 1)

\* date.toordinal()
toordinal(dt) == DaysBeforeYear(dt.year) + DaysBeforeMonth(dt.year, dt.month) + dt.day

\* dt.timestamp() raises ValueError ("year 0 is out of range"): it looks a day
\* back, and 0001-01-01 has no day before it
TimestampRaises(dt) == dt.year = 1 /\ dt.month = 1 /\ dt.day = 1

\* dt.timestamp(), where it does not raise
timestamp(dt) ==
    ((toordinal(dt) - toordinal(DateTime(2000, 1, 1, 0, 0, 0))) * 86400
         + dt.hour * 3600 + dt.minute * 60 + dt.second) * Second

\* abs(x)
abs(x) == IF x < 0 THEN 0 - x ELSE x

\* check_filesystem_date with <= for <
check_filesystem_date_WithinOrAt(current_mtime, target_date) ==
    abs(current_mtime - timestamp(target_date)) <= 1 * Second

\* check_filesystem_date, the file's st_mtime given: is it within 1.0 s of the target
check_filesystem_date(current_mtime, target_date) ==
    abs(current_mtime - timestamp(target_date)) < 1 * Second

\* date.strftime('%Y:%m:%d %H:%M:%S'), for the years from 1000 on
strftime(dt) ==
    FourDigits(dt.year) \o <<":">> \o TwoDigits(dt.month) \o <<":">> \o TwoDigits(dt.day)
        \o <<" ">> \o TwoDigits(dt.hour) \o <<":">> \o TwoDigits(dt.minute)
        \o <<":">> \o TwoDigits(dt.second)

\* str.strip()
RECURSIVE strip(_)
strip(text) ==
    IF text = <<>> THEN text
    ELSE IF text[1] \in Whitespace THEN strip(Tail(text))
    ELSE IF text[Len(text)] \in Whitespace THEN strip(SubSeq(text, 1, Len(text) - 1))
    ELSE text

\* datetime.strptime(date_part, '%Y:%m:%d %H:%M:%S') for a text in the two-digit
\* form exiftool prints; None for ValueError
strptime(date_part) ==
    IF /\ Len(date_part) = 19
       /\ DigitsAt(date_part, 1, 4) /\ CharAt(date_part, 5, ":")
       /\ DigitsAt(date_part, 6, 2) /\ CharAt(date_part, 8, ":")
       /\ DigitsAt(date_part, 9, 2) /\ CharAt(date_part, 11, " ")
       /\ DigitsAt(date_part, 12, 2) /\ CharAt(date_part, 14, ":")
       /\ DigitsAt(date_part, 15, 2) /\ CharAt(date_part, 17, ":")
       /\ DigitsAt(date_part, 18, 2)
    THEN TryDateTime(int(SubSeq(date_part, 1, 4)), int(SubSeq(date_part, 6, 7)),
                     int(SubSeq(date_part, 9, 10)), int(SubSeq(date_part, 12, 13)),
                     int(SubSeq(date_part, 15, 16)), int(SubSeq(date_part, 18, 19)))
    ELSE None

\* read_date taking the whole of what exiftool printed, time zone and all
read_date_Uncut(output) ==
    LET raw == strip(output)
    IN  IF raw = <<>> THEN None ELSE strptime(raw)

\* ExifToolBatch.read_date, from what _execute returned
read_date(output) ==
    LET raw == strip(output)
    IN  IF raw = <<>> THEN None
        ELSE strptime(SubSeq(raw, 1, IF Len(raw) < 19 THEN Len(raw) ELSE 19))

-----------------------------------------------------------------------------
(* The run: run_default_mode and run_refine_mode over the listing.  The    *)
(* date of each file is found by the actions above; pc goes on from        *)
(* "resolved" and "undated" through "check", "set_exif" and "set_fs" back  *)
(* to "loop", and ends "done", "aborted" (an exception no one catches) or  *)
(* "hung" (a read that never returns).                                     *)

\* the moment of the run, which a file rewritten by exiftool gets as its times
Now == DateTime(2026, 11, 5, 9, 0, 0)

\* the date the file is to carry: 'date' in run_default_mode, 'final_date' in
\* run_refine_mode
Target == IF refine THEN final_date ELSE date

\* file_path.parent.relative_to(base_dir)
rel_folder == SubSeq(dirs, base + 1, Len(dirs))

\* what may come of a command sent to exiftool: its answer up to the sentinel,
\* the end of its output (the process has gone), or nothing at all
Outcomes == {"answer", "eof", "hang"}

\* for file_path in all_files: the next file of the listing
NextFile ==
    /\ pc = "loop"
    /\ idx < Len(all_files)
    /\ idx' = idx + 1
    /\ dirs' = all_files[idx'].dirs
    /\ fname' = all_files[idx'].fname
    /\ pc' = "start"
    /\ current' = 0
    /\ date' = None
    /\ source_name' = None
    /\ source_type' = ""
    /\ folder_info' = None
    /\ folder_name' = None
    /\ file_dt' = None
    /\ final_date' = None
    /\ existing_exif' = None
    /\ UNCHANGED <<refine, base, apply, all_files, files, tree, proc, stats,
                   undated_folders, writes, run, exit_code>>
    /\ UNCHANGED proc_failed
    /\ UNCHANGED log
    /\ UNCHANGED files_before

\* SkipUndated counting the file without noting its folder
SkipUndated_NoReport ==
    /\ pc = "undated"
    /\ idx > 0
    /\ stats' = [stats EXCEPT ![IF refine THEN "without_folder_date" ELSE "without_date"] = @ + 1]
    /\ pc' = "loop"
    /\ UNCHANGED <<refine, dirs, base, fname, current, date, source_name, source_type,
                   folder_info, folder_name, file_dt, final_date, apply, all_files, idx,
                   files, tree, proc, proc_failed, undated_folders, existing_exif, writes,
                   run, exit_code>>
    /\ UNCHANGED log
    /\ UNCHANGED files_before

\* no date in the path: count the file, remember its folder, on to the next
SkipUndated ==
    /\ pc = "undated"
    /\ idx > 0
    /\ IF refine
           THEN /\ stats' = [stats EXCEPT !.without_folder_date = @ + 1]
                /\ UNCHANGED undated_folders
           ELSE /\ stats' = [stats EXCEPT !.without_date = @ + 1]
                /\ undated_folders' = undated_folders \cup {rel_folder}
    /\ pc' = "loop"
    /\ UNCHANGED <<refine, dirs, base, fname, current, date, source_name, source_type,
                   folder_info, folder_name, file_dt, final_date, apply, all_files, idx,
                   files, tree, proc, existing_exif, writes, run, exit_code>>
    /\ UNCHANGED proc_failed
    /\ UNCHANGED log
    /\ UNCHANGED files_before

\* existing_exif = exif.read_date(file_path): _execute writes the command to the
\* process (BrokenPipeError if it has gone) and reads lines up to the sentinel
ReadDate ==
    /\ pc = "resolved"
    /\ idx > 0
    /\ stats' = IF refine THEN stats ELSE [stats EXCEPT !.with_date = @ + 1]
    /\ IF proc = "dead"
           THEN /\ pc' = "aborted"
                /\ exit_code' = 1
                /\ UNCHANGED <<proc, proc_failed, existing_exif>>
           ELSE \E outcome \in Outcomes :
                    /\ proc_failed' = (proc_failed \/ outcome # "answer")
                    /\ pc' = IF outcome = "hang" THEN "hung" ELSE "check"
                    /\ proc' = IF outcome = "eof" THEN "dead" ELSE proc
                    /\ existing_exif' =
                           IF outcome = "answer" THEN read_date(files[idx].meta)
                           ELSE read_date(<<>>)
                    /\ UNCHANGED exit_code
    /\ UNCHANGED <<refine, dirs, base, fname, current, date, source_name, source_type,
                   folder_info, folder_name, file_dt, final_date, apply, all_files, idx,
                   files, tree, undated_folders, writes, run>>
    /\ UNCHANGED log
    /\ UNCHANGED files_before

\* CheckDates going on to the writes whether --apply was given or not
CheckDates_ApplyAlways ==
    /\ pc = "check"
    /\ IF TimestampRaises(Target)
           THEN /\ pc' = "aborted"
                /\ exit_code' = 1
                /\ UNCHANGED <<stats, log>>
           ELSE LET fs_matches == check_filesystem_date(files[idx].mtime, Target)
                    exif_needs_update == existing_exif # None /\ existing_exif # Target
                IN  /\ UNCHANGED exit_code
                    /\ IF fs_matches /\ ~exif_needs_update
                           THEN /\ stats' = [stats EXCEPT !.skipped_match = @ + 1]
                                /\ log' = IF refine THEN log ELSE Append(log, <<"skip", idx>>)
                                /\ pc' = "loop"
                           ELSE /\ pc' = "set_exif"
                                /\ UNCHANGED <<stats, log>>
    /\ UNCHANGED <<refine, dirs, base, fname, current, date, source_name, source_type,
                   folder_info, folder_name, file_dt, final_date, apply, all_files, idx,
                   files, tree, proc, undated_folders, existing_exif, writes, run>>
    /\ UNCHANGED proc_failed
    /\ UNCHANGED files_before

\* fs_matches, exif_needs_update and the gate; without --apply the file is only
\* shown
CheckDates ==
    /\ pc = "check"
    /\ IF TimestampRaises(Target)
           THEN /\ pc' = "aborted"
                /\ exit_code' = 1
                /\ UNCHANGED <<stats, log>>
           ELSE LET fs_matches == check_filesystem_date(files[idx].mtime, Target)
                    exif_needs_update == existing_exif # None /\ existing_exif # Target
                IN  /\ UNCHANGED exit_code
                    /\ IF fs_matches /\ ~exif_needs_update
                           THEN /\ stats' = [stats EXCEPT !.skipped_match = @ + 1]
                                /\ log' = IF refine THEN log ELSE Append(log, <<"skip", idx>>)
                                /\ pc' = "loop"
                       ELSE IF ~apply
                           THEN /\ stats' = IF refine THEN stats
                                            ELSE [stats EXCEPT !.skipped_dry_run = @ + 1]
                                /\ log' = IF refine THEN log ELSE Append(log, <<"dry_run", idx>>)
                                /\ pc' = "loop"
                       ELSE /\ pc' = "set_exif"
                            /\ UNCHANGED <<stats, log>>
    /\ UNCHANGED <<refine, dirs, base, fname, current, date, source_name, source_type,
                   folder_info, folder_name, file_dt, final_date, apply, all_files, idx,
                   files, tree, proc, undated_folders, existing_exif, writes, run>>
    /\ UNCHANGED proc_failed
    /\ UNCHANGED files_before

\* set_date as exiftool runs by default, keeping a copy of the original
set_date_args_KeepOriginal == {"-api QuickTimeUTC", "-m"}

\* the arguments of set_date that are no tag
set_date_args == {"-overwrite_original", "-api QuickTimeUTC", "-m"}

\* what exiftool leaves in the tree when it writes the file: without
\* -overwrite_original, a copy of the original beside it
LeftBehind(args) ==
    IF "-overwrite_original" \in args THEN {}
    ELSE {rel_folder \o <<fname \o <<"_", "o", "r", "i", "g", "i", "n", "a", "l">>>>}

\* _apply_date, 1: exif.set_date(file_path, date), whose result is always True
SetExifDate ==
    /\ pc = "set_exif"
    /\ writes' = Append(writes, <<"exif", idx>>)
    /\ IF proc = "dead"
           THEN /\ pc' = "aborted"
                /\ exit_code' = 1
                /\ UNCHANGED <<proc, proc_failed, files, tree>>
           ELSE \E outcome \in Outcomes, written \in BOOLEAN :
                    /\ proc_failed' = (proc_failed \/ outcome # "answer")
                    /\ outcome = "answer" => written = files[idx].writable
                    /\ written => files[idx].writable
                    /\ outcome = "hang" => ~written
                    /\ pc' = IF outcome = "hang" THEN "hung" ELSE "set_fs"
                    /\ proc' = IF outcome = "eof" THEN "dead" ELSE proc
                    /\ files' = IF written
                                    THEN [files EXCEPT ![idx].meta = strftime(Target),
                                                       ![idx].mtime = timestamp(Now),
                                                       ![idx].atime = timestamp(Now)]
                                    ELSE files
                    /\ tree' = IF written THEN tree \cup LeftBehind(set_date_args) ELSE tree
                    /\ UNCHANGED exit_code
    /\ UNCHANGED <<refine, dirs, base, fname, current, date, source_name, source_type,
                   folder_info, folder_name, file_dt, final_date, apply, all_files, idx,
                   stats, undated_folders, existing_exif, run>>
    /\ UNCHANGED log
    /\ UNCHANGED files_before

\* _apply_date, 2: set_filesystem_dates(file_path, date), os.utime raising OSError
\* for a file that is not the user's; then the counting of the outcome
SetFilesystemDates ==
    /\ pc = "set_fs"
    /\ writes' = Append(writes, <<"fs", idx>>)
    /\ IF files[idx].owned
           THEN /\ files' = [files EXCEPT ![idx].mtime = timestamp(Target),
                                          ![idx].atime = timestamp(Target)]
                /\ stats' = [stats EXCEPT !.success = @ + 1]
                /\ log' = Append(log, <<"ok", idx>>)
           ELSE /\ UNCHANGED files
                /\ stats' = [stats EXCEPT !.failed = @ + 1]
                /\ log' = Append(log, <<"error", idx>>)
    /\ pc' = "loop"
    /\ UNCHANGED <<refine, dirs, base, fname, current, date, source_name, source_type,
                   folder_info, folder_name, file_dt, final_date, apply, all_files, idx,
                   tree, proc, undated_folders, existing_exif, run, exit_code>>
    /\ UNCHANGED proc_failed
    /\ UNCHANGED files_before

\* after the loop: exif.close(), the summary, return 0 if stats['failed'] == 0 else 1
Summary ==
    /\ pc = "loop"
    /\ idx = Len(all_files)
    /\ proc' = "closed"
    /\ exit_code' = IF stats.failed = 0 THEN 0 ELSE 1
    /\ pc' = "done"
    /\ UNCHANGED <<refine, dirs, base, fname, current, date, source_name, source_type,
                   folder_info, folder_name, file_dt, final_date, apply, all_files, idx,
                   files, tree, stats, undated_folders, existing_exif, writes, run>>
    /\ UNCHANGED proc_failed
    /\ UNCHANGED log
    /\ UNCHANGED files_before

\* the program is started again on the archive as the run has left it, with the
\* same arguments
Restart ==
    /\ pc = "done"
    /\ run < MaxRuns
    /\ run' = run + 1
    /\ idx' = 0
    /\ stats' = Stats(Len(all_files))
    /\ undated_folders' = {}
    /\ writes' = <<>>
    /\ log' = <<>>
    /\ proc' = "up"
    /\ exit_code' = None
    /\ pc' = "loop"
    /\ UNCHANGED <<refine, dirs, base, fname, current, date, source_name, source_type,
                   folder_info, folder_name, file_dt, final_date, apply, all_files,
                   files, tree, existing_exif>>
    /\ UNCHANGED proc_failed
    /\ files_before' = files

-----------------------------------------------------------------------------
(* The archives the run is started on.                                     *)

\* base_dir, whose name carries no date
BaseName == <<"x">>

\* a folder of four days, a folder of year 1, a folder of a day that does not exist
FolderOfDays ==
    FourDigits(2019) \o <<".">> \o TwoDigits(1) \o <<".">> \o TwoDigits(2) \o <<"-">> \o TwoDigits(5)

FolderOfYearOne == FourDigits(1)

FolderOfNoDay ==
    FourDigits(2023) \o <<".">> \o TwoDigits(2) \o <<".">> \o TwoDigits(31) \o <<" ", "x">>

\* its midday, another time of its first day, the time a file name carries, a
\* time far from all of them
FolderMidday == DateTime(2019, 1, 2, 12, 0, 0)

SameDay == DateTime(2019, 1, 2, 16, 30, 0)

Stamped == DateTime(2019, 1, 3, 16, 0, 0)

Elsewhen == DateTime(2018, 5, 5, 10, 0, 0)

\* the files of the folder of days: a timestamp inside the range, one outside, none
FilesOfDays ==
    {[dirs |-> <<BaseName, FolderOfDays>>, fname |-> n] :
         n \in {Img \o Stamp(2019, 1, 3, 16, 0, 0) \o Jpg,
                Img \o Stamp(2019, 1, 6, 16, 0, 0) \o Jpg,
                <<"a">> \o Jpg}}

\* the files of base_dir itself, which os.walk lists first: no date anywhere, a
\* date in the file's own name
FilesOfBase ==
    {[dirs |-> <<BaseName>>, fname |-> n] :
         n \in {<<"a">> \o Jpg,
                FourDigits(2019) \o <<".">> \o TwoDigits(1) \o <<".">> \o TwoDigits(4)
                    \o <<" ", "x">> \o Jpg}}

\* the files of the other folders
FilesOfOthers ==
    {[dirs |-> <<BaseName, d>>, fname |-> <<"a">> \o Jpg] : d \in {FolderOfYearOne, FolderOfNoDay}}

\* a file on disk: its times, DateTimeOriginal as exiftool prints it ('' if the
\* file has none), whether exiftool can write its tags, whether os.utime may set
\* its times
OnDisk(mtime, meta, writable, owned) ==
    [mtime |-> mtime, atime |-> mtime, meta |-> meta, writable |-> writable, owned |-> owned]

\* times at, half a second from and one second from the folder's midday, and others
DiskTimes ==
    {timestamp(FolderMidday), timestamp(FolderMidday) + 1, timestamp(FolderMidday) + Second,
     timestamp(SameDay), timestamp(Stamped), timestamp(Elsewhen)}

\* no tag, the folder's midday, the same with a time zone, other times, the date
\* of a camera whose clock was never set
DiskTags ==
    {<<>>, strftime(FolderMidday), strftime(FolderMidday) \o <<"+", "0", "3", ":", "0", "0">>,
     strftime(SameDay), strftime(Stamped),
     FourDigits(0) \o <<":">> \o TwoDigits(0) \o <<":">> \o TwoDigits(0) \o <<" ">>
         \o TwoDigits(0) \o <<":">> \o TwoDigits(0) \o <<":">> \o TwoDigits(0)}

DisksOfDays ==
    {OnDisk(t, m, p[1], p[2]) :
         t \in DiskTimes, m \in DiskTags,
         p \in {<<TRUE, TRUE>>, <<FALSE, TRUE>>, <<TRUE, FALSE>>}}

DisksOfOthers == {OnDisk(timestamp(Elsewhen), <<>>, TRUE, o) : o \in BOOLEAN}

\* the listings of find_files: files of base_dir before those of its folders,
\* the folders in any order
Listings ==
    {<<[file |-> f, disk |-> d]>> : f \in FilesOfDays, d \in DisksOfDays}
        \cup {<<[file |-> g, disk |-> e], [file |-> f, disk |-> d]>> :
                  g \in FilesOfBase \cup FilesOfOthers, e \in DisksOfOthers,
                  f \in FilesOfDays, d \in DisksOfDays}
        \cup {<<[file |-> f, disk |-> d], [file |-> g, disk |-> e]>> :
                  g \in FilesOfOthers, e \in DisksOfOthers,
                  f \in FilesOfDays, d \in DisksOfDays}

\* the directories and the file of a path, from base_dir
RECURSIVE PathsTo(_)
PathsTo(path) ==
    IF path = <<>> THEN {} ELSE {path} \cup PathsTo(SubSeq(path, 1, Len(path) - 1))

RunInit ==
    /\ refine \in BOOLEAN
    /\ apply \in BOOLEAN
    /\ \E listing \in Listings :
           /\ all_files = [i \in 1..Len(listing) |-> listing[i].file]
           /\ files = [i \in 1..Len(listing) |-> listing[i].disk]
           /\ tree = UNION {PathsTo(SubSeq(listing[i].file.dirs, 2, Len(listing[i].file.dirs))
                                        \o <<listing[i].file.fname>>) :
                                i \in 1..Len(listing)}
    /\ files_before = files
    /\ dirs = <<BaseName>>
    /\ base = 1
    /\ fname = <<>>
    /\ idx = 0
    /\ pc = "loop"
    /\ current = 0
    /\ date = None
    /\ source_name = None
    /\ source_type = ""
    /\ folder_info = None
    /\ folder_name = None
    /\ file_dt = None
    /\ final_date = None
    /\ proc = "up"
    /\ proc_failed = FALSE
    /\ log = <<>>
    /\ stats = Stats(Len(all_files))
    /\ undated_folders = {}
    /\ existing_exif = None
    /\ writes = <<>>
    /\ run = 1
    /\ exit_code = None

RunNext ==
    \/ NextFile
    \/ FileNameDate
    \/ DateWalkFound
    \/ DateWalkStop
    \/ DateWalkUp
    \/ FolderWalkStart
    \/ FolderWalkFound
    \/ FolderWalkStop
    \/ FolderWalkUp
    \/ Reconcile
    \/ SkipUndated
    \/ ReadDate
    \/ CheckDates
    \/ SetExifDate
    \/ SetFilesystemDates
    \/ Summary
    \/ Restart

RunSpec == RunInit /\ [][RunNext]_vars

-----------------------------------------------------------------------------
(* What the claims speak of, stated without the patterns.                  *)

\* the calendar: the days of each month, 29 in February of a leap year
MonthLengths == <<31, 28, 31, 30, 31, 30, 31, 31, 30, 31, 30, 31>>

GenuineDate(y, m, d) ==
    /\ y \in 1..9999
    /\ m \in 1..12
    /\ d >= 1
    /\ d <= IF m = 2 /\ ((y % 4 = 0 /\ y % 100 # 0) \/ y % 400 = 0)
                THEN 29 ELSE MonthLengths[m]

\* midday of a day
Midday(y, m, d) ==
    [year |-> y, month |-> m, day |-> d, hour |-> 12, minute |-> 0, second |-> 0]

\* the number written by the two, by the four digits at position i of n
Num2(n, i) == DigitVal(n[i]) * 10 + DigitVal(n[i + 1])

Num4(n, i) == Num2(n, i) * 100 + Num2(n, i + 2)

\* n begins YYYY, then whitespace or the end
YearForm(n) ==
    /\ DigitsAt(n, 1, 4)
    /\ Len(n) = 4 \/ ClassAt(n, 5, Whitespace)

\* n begins YYYY.MM, then whitespace, '-' or the end
MonthForm(n) ==
    /\ DigitsAt(n, 1, 4) /\ CharAt(n, 5, ".") /\ DigitsAt(n, 6, 2)
    /\ Len(n) = 7 \/ ClassAt(n, 8, Whitespace \cup {"-"})

\* n begins YYYY.MM.DD, then whitespace, '-' or the end
DayForm(n) ==
    /\ DigitsAt(n, 1, 4) /\ CharAt(n, 5, ".") /\ DigitsAt(n, 6, 2)
    /\ CharAt(n, 8, ".") /\ DigitsAt(n, 9, 2)
    /\ Len(n) = 10 \/ ClassAt(n, 11, Whitespace \cup {"-"})

\* the first day the token of n names, None if the calendar has no such day
FormStart(n) ==
    LET y == Num4(n, 1)
        m == IF YearForm(n) THEN 1 ELSE Num2(n, 6)
        d == IF DayForm(n) THEN Num2(n, 9) ELSE 1
    IN  IF GenuineDate(y, m, d) THEN Midday(y, m, d) ELSE None

FormPrecision(n) ==
    IF DayForm(n) THEN "day" ELSE IF MonthForm(n) THEN "month" ELSE "year"

\* n begins with a token of the grammar
TokenForm(n) == YearForm(n) \/ MonthForm(n) \/ DayForm(n)

\* the four digits n begins with are followed by something else than '.' and two
\* digits, whitespace or the end: 2009-09-25, 20180101, 201801, 2018.1, 2018x
NotDotted(n) ==
    /\ DigitsAt(n, 1, 4)
    /\ Len(n) > 4
    /\ ~ClassAt(n, 5, Whitespace)
    /\ ~(CharAt(n, 5, ".") /\ DigitsAt(n, 6, 2))

\* n begins YYYY-MM-DD, n begins with eight digits
DashedDate(n) ==
    /\ DigitsAt(n, 1, 4) /\ CharAt(n, 5, "-") /\ DigitsAt(n, 6, 2)
    /\ CharAt(n, 8, "-") /\ DigitsAt(n, 9, 2)

CompactDate(n) == DigitsAt(n, 1, 8)

\* the walk has ended at a directory whose name carries a date
FoundFolder ==
    \/ ~refine /\ pc = "resolved" /\ source_type = "folder"
    \/ refine /\ pc \in {"reconcile", "resolved"}

\* C1: a name whose four leading digits are followed by something else than '.'
\* and two digits, whitespace or the end (every YYYY-MM-DD, every YYYYMMDD among
\* them) carries no date for extract_date_from_name nor for
\* extract_folder_date_info; the walk never takes its date from such a directory
\* and, standing at one below base_dir, goes on to its parent.
C1_DotMandatory ==
    /\ [](/\ \A i \in 1..Len(dirs) :
                 /\ (DashedDate(dirs[i]) \/ CompactDate(dirs[i])) => NotDotted(dirs[i])
                 /\ NotDotted(dirs[i]) =>
                        /\ extract_date_from_name(dirs[i]) = None
                        /\ extract_folder_date_info(dirs[i]) = None
          /\ FoundFolder => ~NotDotted(DirName(current)))
    /\ [][(pc = "walk" /\ NotDotted(DirName(current))) =>
              IF AtTop(current)
                  THEN pc' = "undated"
                  ELSE pc' = "walk" /\ current' = current - 1]_vars

\* the walk has stepped over a directory named YYYY-MM-DD and taken the date of
\* the dotted directory above it
C1_Witness ==
    /\ FoundFolder
    /\ current = 1 /\ Len(dirs) = 2
    /\ DashedDate(dirs[2])
    /\ DayForm(dirs[1])

\* a range suffix follows the token of n: -NN after YYYY.MM.DD or after YYYY.MM
RangeForm(n) ==
    \/ DayForm(n) /\ CharAt(n, 11, "-") /\ DigitsAt(n, 12, 2)
    \/ MonthForm(n) /\ CharAt(n, 8, "-") /\ DigitsAt(n, 9, 2)

\* the last day the suffix of n names: -DD the day DD of the token's month, -MM.DD
\* the day DD of month MM, -MM after YYYY.MM the first of month MM, all of the
\* token's year; None if the calendar has no such day
FormEnd(n) ==
    LET y == Num4(n, 1)
        m == Num2(n, 6)
    IN  IF DayForm(n) /\ CharAt(n, 14, ".") /\ DigitsAt(n, 15, 2)
            THEN IF GenuineDate(y, Num2(n, 12), Num2(n, 15))
                     THEN Midday(y, Num2(n, 12), Num2(n, 15)) ELSE None
        ELSE IF DayForm(n)
            THEN IF GenuineDate(y, m, Num2(n, 12)) THEN Midday(y, m, Num2(n, 12)) ELSE None
        ELSE IF GenuineDate(y, Num2(n, 9), 1) THEN Midday(y, Num2(n, 9), 1) ELSE None

\* the walk of the refine pass has ended at a dated directory
FoundInfo == refine /\ pc \in {"reconcile", "resolved"}

\* C2: for a name that begins with a token naming a day of the calendar,
\* extract_folder_date_info returns the precision the token states (YYYY: year,
\* YYYY.MM: month, YYYY.MM.DD: day) and as start the first day it names (January
\* 1st, the 1st of the month, the day) at 12:00:00; so does the walk.
C2_PrecisionAndStart ==
    /\ \A i \in 1..Len(dirs) :
           LET n == dirs[i]
               info == extract_folder_date_info(n)
           IN  (TokenForm(n) /\ FormStart(n) # None) =>
                   /\ info # None
                   /\ info.precision = FormPrecision(n)
                   /\ info.start = FormStart(n)
                   /\ <<info.start.hour, info.start.minute, info.start.second>> = <<12, 0, 0>>
    /\ (FoundInfo /\ TokenForm(folder_name)) =>
           /\ folder_info.precision = FormPrecision(folder_name)
           /\ folder_info.start = FormStart(folder_name)

\* the walk has taken month precision and the 1st of June from 'YYYY.06 ...'
C2_Witness ==
    /\ FoundInfo
    /\ MonthForm(folder_name)
    /\ folder_info.precision = "month"
    /\ <<folder_info.start.month, folder_info.start.day, folder_info.start.hour>> = <<6, 1, 12>>

\* C3: a name that begins with a token of the grammar whose numbers are no day of
\* the calendar carries no date at all, for either parser: no coarser date is
\* taken from it; neither the walk nor the file's own name ever yields one.
C3_InvalidIsNull ==
    /\ \A i \in 1..Len(dirs) :
           (TokenForm(dirs[i]) /\ FormStart(dirs[i]) = None) =>
               /\ extract_date_from_name(dirs[i]) = None
               /\ extract_folder_date_info(dirs[i]) = None
    /\ FoundFolder =>
           ~(TokenForm(DirName(current)) /\ FormStart(DirName(current)) = None)
    /\ (~refine /\ pc # "start" /\ TokenForm(Stem(fname)) /\ FormStart(Stem(fname)) = None) =>
           source_type # "file"

\* the walk has ended without a date at base_dir, named 'YYYY.02.31 ...'
C3_Witness ==
    /\ pc = "undated"
    /\ Len(dirs) = 1
    /\ DayForm(dirs[1])
    /\ <<Num2(dirs[1], 6), Num2(dirs[1], 9)>> = <<2, 31>>

\* C4: after a token naming a day of the calendar, a range suffix naming one too
\* sets the range end: -DD after YYYY.MM.DD to day DD of the same month, -MM.DD
\* after YYYY.MM.DD to day DD of month MM, -MM after YYYY.MM to the 1st of month
\* MM, all in the token's year; start and precision are those of the token.
C4_RangeEnd ==
    /\ \A i \in 1..Len(dirs) :
           LET n == dirs[i]
               info == extract_folder_date_info(n)
           IN  (RangeForm(n) /\ FormStart(n) # None /\ FormEnd(n) # None) =>
                   /\ info # None
                   /\ info.end = FormEnd(n)
                   /\ info.start = FormStart(n)
                   /\ info.precision = FormPrecision(n)
    /\ (FoundInfo /\ RangeForm(folder_name) /\ FormEnd(folder_name) # None) =>
           folder_info.end = FormEnd(folder_name)

\* the walk has taken a range of days that ends in a later month
C4_Witness ==
    /\ FoundInfo
    /\ folder_info.precision = "day"
    /\ folder_info.end # None
    /\ folder_info.end.month > folder_info.start.month
    /\ folder_info.end.day < folder_info.start.day

\* C5: after a token naming a day of the calendar, a range suffix whose numbers
\* name none leaves the token as it is: start and precision unchanged, no range
\* end, and the name still carries its date.
C5_InvalidRangeDropped ==
    /\ \A i \in 1..Len(dirs) :
           LET n == dirs[i]
               info == extract_folder_date_info(n)
           IN  (RangeForm(n) /\ FormStart(n) # None /\ FormEnd(n) = None) =>
                   /\ info # None
                   /\ info.end = None
                   /\ info.start = FormStart(n)
                   /\ info.precision = FormPrecision(n)
    /\ (FoundInfo /\ RangeForm(folder_name) /\ FormEnd(folder_name) = None) =>
           /\ folder_info.end = None
           /\ folder_info.start = FormStart(folder_name)

\* the walk has taken February 28th, and no range end, from 'YYYY.02.28-30'
C5_Witness ==
    /\ FoundInfo
    /\ DayForm(folder_name) /\ RangeForm(folder_name)
    /\ <<Num2(folder_name, 6), Num2(folder_name, 9), Num2(folder_name, 12)>> = <<2, 28, 30>>
    /\ folder_info.end = None
    /\ folder_info.start.day = 28

\* C6: the range end of a token is never before its start.
C6_RangeEndNotBeforeStart ==
    (FoundInfo /\ folder_info.end # None) => DateTimeLE(folder_info.start, folder_info.end)

\* directory i of the path carries a date for the parser of the mode
Dated(i) ==
    IF refine THEN extract_folder_date_info(DirName(i)) # None
    ELSE extract_date_from_name(DirName(i)) # None

\* the processing of the file has come to its date, or to none
Settled == pc \in {"resolved", "reconcile", "undated"}

\* C7: the walk ends at the first directory, counted up from the file's parent,
\* whose name carries a date, and returns that directory's token and bare name;
\* it ends without a date only when no directory from the parent up to base_dir
\* carries one.
C7_NearestAncestorWins ==
    /\ FoundFolder =>
           /\ current \in 1..Len(dirs)
           /\ Dated(current)
           /\ \A j \in (current + 1)..Len(dirs) : ~Dated(j)
           /\ IF refine
                  THEN /\ folder_name = dirs[current]
                       /\ folder_info = extract_folder_date_info(dirs[current])
                  ELSE /\ source_name = dirs[current]
                       /\ date = extract_date_from_name(dirs[current])
    /\ pc = "undated" => \A j \in base..Len(dirs) : ~Dated(j)

\* two levels up: the date of a dated directory above an undated one, itself
\* below a dated directory that was not looked at
C7_Witness ==
    /\ FoundFolder
    /\ Len(dirs) = 3 /\ current = 2 /\ base = 0
    /\ Dated(1)
    /\ IF refine THEN folder_name = dirs[2] ELSE source_name = dirs[2]

\* C8: if base_dir's name carries a date and no directory between the file and
\* base_dir does (nor, in default mode, the file's own name), the file gets
\* base_dir's date, whatever the depth.
C8_RootIsTested ==
    (/\ Settled
     /\ refine \/ source_type # "file"
     /\ base >= 1
     /\ Dated(base)
     /\ \A j \in (base + 1)..Len(dirs) : ~Dated(j)) =>
        /\ FoundFolder
        /\ current = base
        /\ IF refine
               THEN /\ folder_name = dirs[base]
                    /\ folder_info = extract_folder_date_info(dirs[base])
               ELSE /\ source_name = dirs[base]
                    /\ date = extract_date_from_name(dirs[base])

\* a file two undated directories below base_dir has base_dir's date
C8_Witness ==
    /\ FoundFolder
    /\ base = 1 /\ Len(dirs) = 3 /\ current = 1

\* C9: in default mode a file whose name without extension begins with a token
\* naming a day of the calendar gets that date, with the name without extension
\* as its source and "file" as the kind, whatever its directories are called.
C9_FilenamePriority ==
    (~refine /\ pc # "start" /\ TokenForm(Stem(fname)) /\ FormStart(Stem(fname)) # None) =>
        /\ pc = "resolved"
        /\ date = FormStart(Stem(fname))
        /\ source_type = "file"
        /\ source_name = Stem(fname)

\* a file named by a year alone, in a directory named by a day
C9_Witness ==
    /\ ~refine /\ pc = "resolved" /\ source_type = "file"
    /\ YearForm(Stem(fname))
    /\ Len(dirs) >= 1
    /\ DayForm(dirs[Len(dirs)]) /\ FormStart(dirs[Len(dirs)]) # None
    /\ date.year = FormStart(dirs[Len(dirs)]).year

\* the folder of the refine example, 2019.01.02-05, and IMG_201901DD_160000.jpg
ExampleFolder ==
    FourDigits(2019) \o <<".">> \o TwoDigits(1) \o <<".">> \o TwoDigits(2) \o <<"-">> \o TwoDigits(5)

ExampleFile(d) == Img \o Stamp(2019, 1, d, 16, 0, 0) \o Jpg

\* C10: in refine mode the final date of a file with a folder token is the
\* token's start (12:00:00) if the file's name carries no timestamp, the
\* timestamp itself if it carries one that is consistent with the token, and the
\* token's start if it carries one that is not.
C10_ReconcilerOutcome ==
    (refine /\ pc = "resolved") =>
        LET ts == extract_datetime_from_filename(Stem(fname))
        IN  /\ file_dt = ts
            /\ ts = None =>
                   /\ final_date = folder_info.start
                   /\ <<final_date.hour, final_date.minute, final_date.second>> = <<12, 0, 0>>
            /\ (ts # None /\ is_consistent(folder_info, ts)) => final_date = ts
            /\ (ts # None /\ ~is_consistent(folder_info, ts)) => final_date = folder_info.start
            /\ \A d \in 1..31 :
                   (folder_name = ExampleFolder /\ fname = ExampleFile(d)) =>
                       final_date = IF d \in 2..5 THEN DateTime(2019, 1, d, 16, 0, 0)
                                    ELSE Midday(2019, 1, 2)

\* a timestamp outside the folder's range of days: the folder's start stands
C10_Witness ==
    /\ refine /\ pc = "resolved"
    /\ folder_name = ExampleFolder
    /\ fname = ExampleFile(6)
    /\ file_dt = DateTime(2019, 1, 6, 16, 0, 0)
    /\ final_date = Midday(2019, 1, 2)

\* the file of the refine pass carries a timestamp, and the pass has weighed it
\* against the token of its folder
Weighed == refine /\ pc = "resolved" /\ file_dt # None

\* the token of n is followed by a range suffix that names a day of the calendar
HasEnd(n) == RangeForm(n) /\ FormEnd(n) # None

\* the times of day a timestamp is moved to
DayTimes == {<<0, 0, 0>>, <<12, 0, 0>>, <<23, 59, 59>>}

\* dt on day d at the time of day t
MovedTo(dt, d, t) ==
    [dt EXCEPT !.day = d, !.hour = t[1], !.minute = t[2], !.second = t[3]]

\* C11: under a month token (YYYY.MM, or YYYY.MM-MM) a timestamp is consistent
\* exactly when its year is the token's and its month is the token's month or,
\* with a range end, lies between the two months, both included; the pass then
\* takes the timestamp and counts the file as refined, otherwise it takes the
\* token's start and counts a conflict; the day and the time of day of the
\* timestamp change nothing.
C11_MonthConsistency ==
    (Weighed /\ MonthForm(folder_name)) =>
        LET y == Num4(folder_name, 1)
            m == Num2(folder_name, 6)
            expected ==
                /\ file_dt.year = y
                /\ IF HasEnd(folder_name)
                       THEN m <= file_dt.month /\ file_dt.month <= Num2(folder_name, 9)
                       ELSE file_dt.month = m
        IN  /\ is_consistent(folder_info, file_dt) = expected
            /\ stats.refined = (IF expected THEN 1 ELSE 0)
            /\ stats.conflict = (IF expected THEN 0 ELSE 1)
            /\ final_date = (IF expected THEN file_dt ELSE Midday(y, m, 1))
            /\ \A d \in 1..28, t \in DayTimes :
                   is_consistent(folder_info, MovedTo(file_dt, d, t)) = expected

\* a file of March 30th, 23:59:59 is refined under 2019.01-03
C11_Witness ==
    /\ Weighed /\ MonthForm(folder_name) /\ HasEnd(folder_name)
    /\ Num2(folder_name, 9) = 3
    /\ <<file_dt.month, file_dt.day, file_dt.hour>> = <<3, 30, 23>>
    /\ final_date = file_dt
    /\ stats.refined = 1

\* the month and the day of the range end of a day token
EndMonth(n) == IF CharAt(n, 14, ".") /\ DigitsAt(n, 15, 2) THEN Num2(n, 12) ELSE Num2(n, 6)

EndDay(n) == IF CharAt(n, 14, ".") /\ DigitsAt(n, 15, 2) THEN Num2(n, 15) ELSE Num2(n, 12)

\* day d1 of month m1 is not after day d2 of month m2, in one year
DayNotAfter(m1, d1, m2, d2) == m1 < m2 \/ (m1 = m2 /\ d1 <= d2)

\* C12: under a day token (YYYY.MM.DD, with or without a range end) a timestamp
\* is consistent exactly when its year is the token's and its calendar day is the
\* token's day or, with a range end, lies between the first and the last day,
\* both included, across months too, whatever its time of day.
C12_DayConsistency ==
    (Weighed /\ DayForm(folder_name)) =>
        LET n == folder_name
            expected ==
                /\ file_dt.year = Num4(n, 1)
                /\ IF HasEnd(n)
                       THEN /\ DayNotAfter(Num2(n, 6), Num2(n, 9), file_dt.month, file_dt.day)
                            /\ DayNotAfter(file_dt.month, file_dt.day, EndMonth(n), EndDay(n))
                       ELSE file_dt.month = Num2(n, 6) /\ file_dt.day = Num2(n, 9)
        IN  /\ is_consistent(folder_info, file_dt) = expected
            /\ stats.refined = (IF expected THEN 1 ELSE 0)
            /\ final_date = (IF expected THEN file_dt ELSE FormStart(n))
            /\ \A t \in DayTimes :
                   is_consistent(folder_info, MovedTo(file_dt, file_dt.day, t)) = expected

\* 23:59:59 on the last day of a range that runs into the next month
C12_Witness ==
    /\ Weighed /\ DayForm(folder_name) /\ HasEnd(folder_name)
    /\ EndMonth(folder_name) > Num2(folder_name, 6)
    /\ <<file_dt.month, file_dt.day>> = <<EndMonth(folder_name), EndDay(folder_name)>>
    /\ <<file_dt.hour, file_dt.minute, file_dt.second>> = <<23, 59, 59>>
    /\ final_date = file_dt

\* the date a DateTimeOriginal text states in its first 19 characters,
\* YYYY:MM:DD HH:MM:SS, None if it states none
TagDate(text) ==
    IF /\ Len(text) >= 19
       /\ DigitsAt(text, 1, 4) /\ DigitsAt(text, 6, 2) /\ DigitsAt(text, 9, 2)
       /\ DigitsAt(text, 12, 2) /\ DigitsAt(text, 15, 2) /\ DigitsAt(text, 18, 2)
       /\ <<text[5], text[8], text[11], text[14], text[17]>> = <<":", ":", " ", ":", ":">>
       /\ GenuineDate(Num4(text, 1), Num2(text, 6), Num2(text, 9))
       /\ Num2(text, 12) < 24 /\ Num2(text, 15) < 60 /\ Num2(text, 18) < 60
    THEN [year |-> Num4(text, 1), month |-> Num2(text, 6), day |-> Num2(text, 9),
          hour |-> Num2(text, 12), minute |-> Num2(text, 15), second |-> Num2(text, 18)]
    ELSE None

\* the metadata date of the file the loop stands at, as far as it can be read:
\* none if the file states none or the process that reads it has gone
ReadableTag == IF proc = "up" THEN TagDate(files[idx].meta) ELSE None

\* the file's mtime is less than one second from the date it is to carry
MtimeMatches ==
    /\ Target.year > 1
    /\ files[idx].mtime - timestamp(Target) \in {-1, 0, 1}

\* the step counts the file as 'already matches' and goes on to the next
SkipsFile ==
    /\ stats'.skipped_match = stats.skipped_match + 1
    /\ pc' = "loop"

DatedFiles ==
    IF refine THEN stats.no_filename_dt + stats.refined + stats.conflict
    ELSE stats.with_date

\* C14: a run with --apply that follows a run with --apply in the same mode, on
\* the archive as that run left it, asks for no write of metadata and for none
\* of the times of a file: it counts no file as processed and skips every file
\* it finds a date for.  Stated for the archives and runs most favourable to it:
\* os.utime is allowed on every file and exiftool has answered every command.
C14_SecondRunWritesNothing ==
    (apply /\ run >= 2 /\ ~proc_failed /\ \A i \in 1..Len(files) : files[i].owned) =>
        /\ writes = <<>>
        /\ stats.success = 0
        /\ pc = "done" => stats.skipped_match = DatedFiles

\* C15: without --apply, in either mode, no step of the run changes the times
\* or the metadata of any file, and the run asks for no write.
C15_DryRunChangesNothing ==
    /\ [](~apply => writes = <<>>)
    /\ [][~apply => UNCHANGED <<files, tree>>]_vars

\* a run without --apply has ended after showing a file whose mtime is far from
\* the date of its folder and whose metadata states another date
C15_Witness ==
    /\ ~apply /\ ~refine
    /\ pc = "done" /\ run = 1
    /\ Len(all_files) = 1
    /\ stats.skipped_dry_run = 1
    /\ files[1].mtime = timestamp(Elsewhen)
    /\ files[1].meta = strftime(Stamped)

\* the paths the listing of the run was taken from: every listed file and every
\* directory from the archive root down to it
ListedPaths ==
    UNION {PathsTo(SubSeq(all_files[i].dirs, 2, Len(all_files[i].dirs))
                       \o <<all_files[i].fname>>) : i \in 1..Len(all_files)}

\* C16: no step of a run, in any mode, with or without --apply, whether its writes
\* succeed or fail, creates, deletes, renames or moves a path of the archive tree;
\* of a file on disk only mtime, atime and the date in its metadata change.
C16_TreeUnchanged ==
    [][/\ tree' = tree
       /\ Len(files') = Len(files)
       /\ \A i \in 1..Len(files) :
              /\ files'[i].writable = files[i].writable
              /\ files'[i].owned = files[i].owned]_vars

\* a run with --apply is over, it has rewritten the metadata and the timestamps of
\* one file and failed on another, and the tree holds the listed paths, no more
C16_Witness ==
    /\ apply /\ pc = "done"
    /\ stats.success = 1 /\ stats.failed = 1
    /\ Len(writes) = 4
    /\ \E i \in 1..Len(files) :
           files[i].meta = strftime(FolderMidday) /\ files[i].mtime = timestamp(FolderMidday)
    /\ tree = ListedPaths

\* file i of the listing has no date to be found: in default mode neither in its
\* own stem nor in the name of any directory from its parent up to the archive
\* root, in refine mode in none of these directories' names
Unresolved(i) ==
    LET f == all_files[i]
    IN  /\ refine \/ extract_date_from_name(Stem(f.fname)) = None
        /\ \A k \in base..Len(f.dirs) :
               IF refine THEN extract_folder_date_info(f.dirs[k]) = None
                         ELSE extract_date_from_name(f.dirs[k]) = None

\* C17: a file without a date to be found is never written, neither its metadata
\* nor its timestamps, in either mode; the run goes on from it to the rest of the
\* listing; and when a run in default mode is over, the folder of every such file
\* is among the undated folders it reports.
C17_UnresolvedUntouched ==
    /\ [](\A j \in 1..Len(writes) : ~Unresolved(writes[j][2]))
    /\ [][\A i \in 1..Len(files) : Unresolved(i) => files'[i] = files[i]]_vars
    /\ [][pc = "undated" => pc' = "loop" /\ idx' = idx]_vars
    /\ []((pc = "done" /\ ~refine) =>
              \A i \in 1..Len(all_files) :
                  Unresolved(i) =>
                      SubSeq(all_files[i].dirs, base + 1, Len(all_files[i].dirs))
                          \in undated_folders)

\* a run in default mode with --apply is over: the first file, in a folder named
\* after the 31st of February, is as it was and counted without a date, the
\* second has been written
C17_Witness ==
    /\ apply /\ ~refine /\ pc = "done" /\ run = 1
    /\ Len(all_files) = 2
    /\ all_files[1].dirs = <<BaseName, FolderOfNoDay>>
    /\ Unresolved(1) /\ ~Unresolved(2)
    /\ files[1] = OnDisk(timestamp(Elsewhen), <<>>, TRUE, TRUE)
    /\ stats.without_date = 1 /\ stats.success = 1
    /\ undated_folders = {<<FolderOfNoDay>>}

\* C18: a file whose timestamps could not be set is counted as failed and the run
\* goes on; no write is made twice in a run; a run ends only after the whole
\* listing, and it returns 1 exactly when it has counted a failed file, so every
\* run that counted none, every dry run among them, returns 0.  Stated for the
\* runs in which exiftool has answered every command.
C18_FailuresAndExitCode ==
    ~proc_failed =>
        /\ \A j, k \in 1..Len(writes) : writes[j] = writes[k] => j = k
        /\ stats.failed =
               Cardinality({j \in 1..Len(writes) :
                                writes[j][1] = "fs" /\ ~files[writes[j][2]].owned})
        /\ pc \in {"done", "aborted"} =>
               /\ idx = Len(all_files)
               /\ exit_code = 1 <=> stats.failed >= 1

\* C19: exiftool failing to answer a command, by going silent or by exiting, never
\* stops the run: no command is waited for without end, the run is not ended by
\* the process being gone, and the file whose date could not be read is taken to
\* have no date in its metadata.
C19_ProcessFailureNotFatal ==
    /\ pc # "hung"
    /\ ~(pc = "aborted" /\ proc = "dead")
    /\ (pc = "check" /\ proc = "dead") => existing_exif = None

\* the first instant of the calendar day of dt, as a time on disk
DayStart(dt) == timestamp([dt EXCEPT !.hour = 0, !.minute = 0, !.second = 0])

\* the file the loop stands at already carries the day it is to be given, both in
\* its mtime and in the date of its metadata, whatever the time of day
CarriesTheDay ==
    /\ Target.year > 1
    /\ files[idx].mtime >= DayStart(Target)
    /\ files[idx].mtime < DayStart(Target) + 86400 * Second
    /\ TagDate(files[idx].meta) # None
    /\ TagDate(files[idx].meta).year = Target.year
    /\ TagDate(files[idx].meta).month = Target.month
    /\ TagDate(files[idx].meta).day = Target.day

\* C20: in default mode with --apply a file whose mtime and metadata date are
\* already on the calendar day of the date found for it, at another time of day
\* or the same, is left as it is: no step changes its mtime or its metadata.
\* Stated for the steps in which exiftool answers.
C20_TimeOfDayPreserved ==
    [][(/\ apply /\ ~refine /\ ~proc_failed'
        /\ pc \in {"check", "set_exif", "set_fs"}
        /\ CarriesTheDay)
           => files'[idx] = files[idx]]_vars

\* in refine mode the file the loop stands at has been given the date and time
\* of its own name, consistent with its folder, and carries them already, in its
\* mtime and in the date of its metadata; nothing has been written to it yet
CarriesItsStamp ==
    /\ refine /\ idx > 0
    /\ pc \in {"resolved", "check"}
    /\ file_dt # None /\ final_date = file_dt
    /\ files[idx].mtime = timestamp(file_dt)
    /\ TagDate(files[idx].meta) = file_dt

\* C21: in refine mode a file that already carries the timestamp of its name,
\* consistent with its folder, gets no refinement entry in the report, and the
\* gate counts it under 'date already matches'.
C21_NoRefinementWhenSet ==
    /\ [](CarriesItsStamp => \A j \in 1..Len(log) : log[j] # <<"refinement", idx>>)
    /\ [][(CarriesItsStamp /\ pc = "check") => SkipsFile]_vars

\* at position i of st: eight digits, at the start of st or after '_' or '-',
\* then one '_' or '-', then six digits
BlockAt(st, i) ==
    /\ i = 1 \/ (i > 1 /\ i - 1 <= Len(st) /\ st[i - 1] \in {"_", "-"})
    /\ i + 14 <= Len(st)
    /\ \A k \in (i..(i + 7)) \cup ((i + 9)..(i + 14)) : st[k] \in {DigitChars[j] : j \in 1..10}
    /\ st[i + 8] \in {"_", "-"}

\* the block at i is the last of st, or goes on with '_', '-' or '.'
BlockEnds(st, i) == Len(st) = i + 14 \/ st[i + 15] \in {"_", "-", "."}

\* the year, month, day, hour, minute and second written in the block at i
BlockTime(st, i) ==
    DateTime(Num4(st, i), Num2(st, i + 4), Num2(st, i + 6),
             Num2(st, i + 9), Num2(st, i + 11), Num2(st, i + 13))

\* they are a day of the calendar and a time of the day
BlockValid(st, i) ==
    /\ GenuineDate(Num4(st, i), Num2(st, i + 4), Num2(st, i + 6))
    /\ Num2(st, i + 9) <= 23 /\ Num2(st, i + 11) <= 59 /\ Num2(st, i + 13) <= 59

\* C22: the timestamp taken from a stem is always the one written in a block of
\* eight digits, one '_' or '-' and six digits standing at the start of the stem
\* or after '_' or '-', unshifted, and a day of the calendar at a time of the day;
\* when the digits of the first such block that ends the stem or is followed by
\* '_', '-' or '.' are no such day or time, nothing is taken.
C22_FilenameTimestamp ==
    (refine /\ pc = "resolved") =>
        LET st == Stem(fname)
        IN  /\ file_dt # None =>
                   \E i \in 1..Len(st) :
                       BlockAt(st, i) /\ BlockValid(st, i) /\ file_dt = BlockTime(st, i)
            /\ \A i \in 1..Len(st) :
                   (/\ BlockAt(st, i) /\ BlockEnds(st, i) /\ ~BlockValid(st, i)
                    /\ \A j \in 1..(i - 1) : ~(BlockAt(st, j) /\ BlockEnds(st, j)))
                       => file_dt = None

\* a stem with two blocks, the first of the 6th, has given 2019-01-06 16:00:00
C22_Witness ==
    /\ refine /\ pc = "resolved"
    /\ Stem(fname) = Img \o Stamp(2019, 1, 6, 16, 0, 0) \o <<"_">> \o Stamp(2019, 1, 2, 16, 0, 0)
    /\ file_dt = DateTime(2019, 1, 6, 16, 0, 0)

\* the two parsers say the same of name: both nothing, or the same first day
ParsersAgree(name) ==
    /\ extract_date_from_name(name) = None <=> extract_folder_date_info(name) = None
    /\ extract_date_from_name(name) # None =>
           extract_date_from_name(name) = extract_folder_date_info(name).start

\* C23: extract_date_from_name and extract_folder_date_info agree on every name,
\* of a directory or of a file, whatever follows the token: a date that the walk
\* of one mode has found is the start the other parser gives for the same name.
C23_ParsersAgree ==
    /\ \A k \in 1..Len(dirs) : ParsersAgree(dirs[k])
    /\ ParsersAgree(fname) /\ ParsersAgree(Stem(fname))
    /\ (pc = "resolved" /\ ~refine) => date = extract_folder_date_info(source_name).start
    /\ (pc = "reconcile" /\ refine) => folder_info.start = extract_date_from_name(folder_name)

\* default mode has taken the 29th of February from a folder whose name goes on
\* with a range and a description
C23_Witness ==
    /\ ~refine /\ pc = "resolved" /\ source_type = "folder"
    /\ source_name = FourDigits(2024) \o <<".">> \o TwoDigits(2) \o <<".">> \o TwoDigits(29)
                          \o <<"-">> \o TwoDigits(4) \o <<".">> \o TwoDigits(30) \o <<" ", "x">>
    /\ date = Midday(2024, 2, 29)
    /\ extract_folder_date_info(source_name).end = Midday(2024, 4, 30)

\* C24: in refine mode the final date of a file is made of the token of its
\* nearest dated directory and of the YYYYMMDD_HHMMSS timestamp of its stem, and
\* of nothing else: the file's own name is never read as a dotted date, so a stem
\* that begins with one and carries no timestamp leaves the folder's start.
C24_NoFilenamePriorityInRefine ==
    (refine /\ pc = "resolved") =>
        /\ folder_info # None
        /\ date = None /\ source_type = ""
        /\ current \in 1..Len(dirs) /\ folder_name = dirs[current]
        /\ \A j \in (current + 1)..Len(dirs) : ~(TokenForm(dirs[j]) /\ FormStart(dirs[j]) # None)
        /\ final_date = IF file_dt # None /\ is_consistent(folder_info, file_dt)
                            THEN file_dt ELSE FormStart(folder_name)
        /\ (TokenForm(Stem(fname)) /\ FormStart(Stem(fname)) # None /\ file_dt = None) =>
               final_date = FormStart(folder_name)

\* the file '2019.01.04 x.jpg' in the folder 2019.01.02 has the folder's day
C24_Witness ==
    /\ refine /\ pc = "resolved"
    /\ folder_name = FourDigits(2019) \o <<".">> \o TwoDigits(1) \o <<".">> \o TwoDigits(2)
    /\ Stem(fname) = FourDigits(2019) \o <<".">> \o TwoDigits(1) \o <<".">> \o TwoDigits(4) \o <<" ", "x">>
    /\ final_date = Midday(2019, 1, 2)

\* position i of n is past its end, or holds whitespace: the suffix stops there
SuffixStops(n, i) == i = Len(n) + 1 \/ ClassAt(n, i, Whitespace)

\* the token of n is followed at once by a whole range suffix of a shape its
\* precision allows: -DD or -MM.DD after YYYY.MM.DD, -MM after YYYY.MM
SuffixWellFormed(n) ==
    \/ /\ DayForm(n) /\ CharAt(n, 11, "-") /\ DigitsAt(n, 12, 2)
       /\ \/ SuffixStops(n, 14)
          \/ CharAt(n, 14, ".") /\ DigitsAt(n, 15, 2) /\ SuffixStops(n, 17)
    \/ /\ MonthForm(n) /\ CharAt(n, 8, "-") /\ DigitsAt(n, 9, 2)
       /\ SuffixStops(n, 11)

\* C25: the token the refine walk has found carries a range end only if the name
\* goes on, right after the token, with a whole range suffix of a shape allowed
\* for the token's precision; after any other continuation (a description, a
\* suffix of another number of digits or with characters attached, a shape of
\* another precision) the token is returned with no range end.
C25_RangeOnlyFromWellFormedSuffix ==
    FoundInfo =>
        /\ folder_info # None
        /\ folder_info.end # None => SuffixWellFormed(folder_name)

\* C26: under --apply every file that passes the gate has its metadata written
\* first and its timestamps second; the timestamps are attempted whatever became
\* of the metadata write; and a file reported as applied has the final date as
\* its mtime and atime, although the metadata write had set them to the time of
\* the write.
C26_WriteOrdering ==
    /\ \A j \in 1..Len(writes) :
           /\ writes[j][1] = "fs" => (j > 1 /\ writes[j - 1] = <<"exif", writes[j][2]>>)
           /\ (writes[j][1] = "exif" /\ ~(j = Len(writes) /\ pc = "set_fs")) =>
                  (j < Len(writes) /\ writes[j + 1] = <<"fs", writes[j][2]>>)
    /\ (pc = "loop" /\ Len(log) > 0 /\ log[Len(log)] = <<"ok", idx>>) =>
           /\ files[idx].mtime = timestamp(Target)
           /\ files[idx].atime = timestamp(Target)

\* C27: the walk never stands above base_dir, and takes no date from there: when
\* no directory from the file's parent up to base_dir (nor, in default mode, the
\* file's own name) carries a date the file ends undated, whatever the
\* directories above base_dir are called; and the walk ends after finitely many
\* turns: each turn that does not end it goes one directory up, and none goes
\* above base_dir nor above the filesystem root.
C27_WalkStopsAtRoot ==
    /\ [](pc = "walk" => (current \in base..Len(dirs) /\ current >= 0))
    /\ [](FoundFolder => (current >= base /\ current >= 1))
    /\ []((/\ Settled
           /\ refine \/ extract_date_from_name(Stem(fname)) = None
           /\ \A j \in base..Len(dirs) : j >= 1 => ~Dated(j)) => pc = "undated")
    /\ [][pc = "walk" =>
              \/ pc' \in {"resolved", "reconcile", "undated"} /\ current' = current
              \/ pc' = "walk" /\ current' = current - 1 /\ current > base]_vars

\* a file two directories below a dated directory, base_dir being the one in
\* between and carrying no date, has ended undated
C27_Witness ==
    /\ pc = "undated"
    /\ Len(dirs) = 3 /\ base = 2
    /\ Dated(1) /\ ~Dated(2) /\ ~Dated(3)

\* the date a run gives the file f of the listing when it is the only file
\* looked at: in default mode the date of its stem or of its nearest dated
\* directory, in refine mode the final date made of the nearest token and of the
\* timestamp of the stem; None if there is none
DateAlone(f) ==
    LET dated == {k \in base..Len(f.dirs) :
                      IF refine THEN extract_folder_date_info(f.dirs[k]) # None
                                ELSE extract_date_from_name(f.dirs[k]) # None}
        near  == CHOOSE k \in dated : \A j \in dated : j <= k
    IN  IF ~refine /\ extract_date_from_name(Stem(f.fname)) # None
            THEN extract_date_from_name(Stem(f.fname))
        ELSE IF dated = {} THEN None
        ELSE IF refine
            THEN RefineFinalDate(extract_folder_date_info(f.dirs[near]),
                                 extract_datetime_from_filename(Stem(f.fname)))
        ELSE extract_date_from_name(f.dirs[near])

\* what becomes of the file f, found on disk as d, in such a run
OutcomeAlone(f, d) ==
    LET t == DateAlone(f)
    IN  IF t = None THEN "unresolved"
        ELSE IF t.year = 1 THEN "crash"
        ELSE IF /\ d.mtime - timestamp(t) \in {-1, 0, 1}
                /\ TagDate(d.meta) \in {None, t}
            THEN "skipped"
        ELSE IF ~apply THEN "shown"
        ELSE IF d.owned THEN "applied"
        ELSE "failed"

\* and how the run leaves it on disk
DiskAlone(f, d) ==
    LET t == DateAlone(f)
        tagged == IF d.writable
                      THEN [d EXCEPT !.meta = strftime(t), !.mtime = timestamp(Now),
                                     !.atime = timestamp(Now)]
                      ELSE d
    IN  IF OutcomeAlone(f, d) = "applied"
            THEN [tagged EXCEPT !.mtime = timestamp(t), !.atime = timestamp(t)]
        ELSE IF OutcomeAlone(f, d) = "failed" THEN tagged
        ELSE d

\* how many files of the listing have the outcome o when looked at alone
CountAlone(o) ==
    Cardinality({i \in 1..Len(all_files) : OutcomeAlone(all_files[i], files_before[i]) = o})

\* C28: the order of the listing has no effect on what a run does to a file nor
\* on what it counts: when the run has ended, every file, whatever its place in
\* the listing, is on disk as a run on that file alone would have left it; and
\* in the summary the counters are the numbers of files of each outcome and the
\* exit code is 1 exactly when some file's outcome is a failure.  Stated for the
\* runs in which exiftool has answered every command.
C28_OrderIndependence ==
    (pc \in {"done", "aborted"} /\ ~proc_failed) =>
        /\ \A i \in 1..Len(all_files) : files[i] = DiskAlone(all_files[i], files_before[i])
        /\ pc = "done" =>
               /\ stats.skipped_match = CountAlone("skipped")
               /\ stats.success = CountAlone("applied")
               /\ stats.failed = CountAlone("failed")
               /\ stats.without_date + stats.without_folder_date = CountAlone("unresolved")
               /\ ~refine => stats.skipped_dry_run = CountAlone("shown")
               /\ exit_code = IF CountAlone("failed") > 0 THEN 1 ELSE 0

\* C29: a token of year precision has no range end; and the final date of the
\* refine pass is the start of the folder's token or the timestamp of the file's
\* name, in the year of the folder's token either way.
C29_YearTokenAndFinalYear ==
    /\ \A k \in 1..Len(dirs) :
           LET info == extract_folder_date_info(dirs[k])
           IN  (info # None /\ info.precision = "year") =>
                   (info.end = None /\ YearForm(dirs[k]))
    /\ FoundInfo => (folder_info.precision = "year" => folder_info.end = None)
    /\ (refine /\ pc = "resolved") =>
           /\ final_date = folder_info.start \/ (file_dt # None /\ final_date = file_dt)
           /\ final_date.year = folder_info.start.year
           /\ final_date.year = Num4(folder_name, 1)

\* in a folder named by its year alone a file has been given the timestamp of
\* its name, of that year
C29_Witness ==
    /\ refine /\ pc = "resolved"
    /\ folder_name = FourDigits(2019)
    /\ folder_info.precision = "year" /\ folder_info.end = None
    /\ file_dt # None /\ final_date = file_dt
    /\ final_date # folder_info.start /\ final_date.year = 2019

\* C30: when a run in default mode has ended, every file of the listing has been
\* counted once: total = with_date + without_date and with_date = skipped_match
\* + success + failed + skipped_dry_run; with --apply no file is counted as only
\* shown, without it none as applied or failed; and no file has been written
\* twice.  Stated for the runs in which exiftool has answered every command.
C30_CounterConservation ==
    (~refine /\ pc \in {"done", "aborted"} /\ ~proc_failed) =>
        /\ stats.total = Len(all_files)
        /\ stats.total = stats.with_date + stats.without_date
        /\ stats.with_date = stats.skipped_match + stats.success + stats.failed
                                 + stats.skipped_dry_run
        /\ apply => stats.skipped_dry_run = 0
        /\ ~apply => (stats.success = 0 /\ stats.failed = 0)
        /\ \A j, k \in 1..Len(writes) : writes[j] = writes[k] => j = k

====
